---------------------------- MODULE Spec2Model ----------------------------
(***************************************************************************)
(* A model of the Beider-Morse phonetic matching engine                    *)
(* (src/src/bmpm-engine.ts).                                               *)
(*                                                                         *)
(* Strings are sequences of one-character strings; a position is the       *)
(* 0-based index of the source, so text[pos] of the source is text[pos+1]  *)
(* here.  Optional fields of the source's interfaces (consumes, lctx,      *)
(* rctx, mergerTable, topLanguages, transliterator) are record fields that *)
(* are present or absent.                                                  *)
(***************************************************************************)
EXTENDS Naturals, Integers, Sequences, FiniteSets, TLC

VARIABLES
    text,        \* encodeWithRules: the normalized text being encoded
    langRules,   \* encodeWithRules: the language's rules (a sequence of Rule)
    cfg,         \* the BMPMConfig of the call
    frontier,    \* encodeWithRules: the worklist of EncodeState {pos, key}
    results,     \* encodeWithRules: the set of finalized keys
    expansions,  \* encodeWithRules: the expansion counter
    state,       \* encodeWithRules: the EncodeState taken by frontier.shift()
    pending,     \* encodeWithRules: the pushes of lines 242-249 still to do
    pruned,      \* ghost: pruneFrontier has dropped an element in this call
    pc,          \* encodeWithRules: "loop", "push" or "done"; "api" otherwise
    call,        \* the top-level API call: its operation and its arguments
    ret          \* the top-level API call: what it returned

vars == <<text, langRules, cfg, frontier, results, expansions, state, pending,
          pruned, pc, call, ret>>

-----------------------------------------------------------------------------
(* Bounds of the model *)

\* The longest text handed to encodeWithRules in the encoder specification.
MaxLen == 3

\* The low value of cfg.maxExpansions: small enough that the expansion counter
\* passes it on short texts.
MaxExpLow == 2

\* The default cap of pruneFrontier is 1024 (bmpm-engine.ts:200); the model runs
\* the same code with the cap scaled down so that a frontier outgrows it.
Cap == 2

\* The longest raw name handed to the top-level API.
MaxNameLen == 2

\* The high value of cfg.maxExpansions: the shorter texts never reach it.
MaxExpHigh == 12

\* cfg.maxExpansions of ExtendedBMPMConfig.
MaxExpDefault == 20000

-----------------------------------------------------------------------------
(* Characters and strings *)

Min(a, b) == IF a <= b THEN a ELSE b

Max(a, b) == IF a >= b THEN a ELSE b

\* The lower-case letters a-z that occur in the model.
LowerLetters == {"a", "b", "c", "e", "j", "o", "t"}

\* The characters matched by \s that occur in the model.
Whitespace == {" ", "\t"}

\* String.prototype.toLowerCase, per character.
LowerChar(c) ==
    CASE c = "A" -> "a"
      [] c = "O" -> "o"
      [] OTHER -> c

toLowerCase(s) == [i \in 1..Len(s) |-> LowerChar(s[i])]

\* String.prototype.slice(from) and slice(from, to) for 0 <= from.
Slice(s, from) == SubSeq(s, from + 1, Len(s))

Slice2(s, from, to) == SubSeq(s, from + 1, Min(to, Len(s)))

\* String.prototype.startsWith(pat, pos) for pos >= 0.
StartsWith(s, pat, pos) ==
    /\ pos + Len(pat) <= Len(s)
    /\ \A i \in 1..Len(pat) : s[pos + i] = pat[i]

EndsWith(s, pat) ==
    /\ Len(pat) <= Len(s)
    /\ \A i \in 1..Len(pat) : s[Len(s) - Len(pat) + i] = pat[i]

\* String.prototype.trim.
RECURSIVE TrimLeft(_)
TrimLeft(s) ==
    IF s # <<>> /\ Head(s) \in Whitespace THEN TrimLeft(Tail(s)) ELSE s

RECURSIVE TrimRight(_)
TrimRight(s) ==
    IF s # <<>> /\ s[Len(s)] \in Whitespace
    THEN TrimRight(SubSeq(s, 1, Len(s) - 1))
    ELSE s

Trim(s) == TrimRight(TrimLeft(s))

\* replace(/[^a-z\u00df\u00e4\u00f6\u00fc\s]+/g, " "): every maximal run of
\* characters that are neither a-z nor whitespace becomes one space.
RECURSIVE ReplaceNonLetters(_, _)
ReplaceNonLetters(s, inRun) ==
    IF s = <<>> THEN <<>>
    ELSE IF Head(s) \in LowerLetters \cup Whitespace
         THEN <<Head(s)>> \o ReplaceNonLetters(Tail(s), FALSE)
         ELSE (IF inRun THEN <<>> ELSE <<" ">>) \o ReplaceNonLetters(Tail(s), TRUE)

\* replace(/\s+/g, " "): every maximal run of whitespace becomes one space.
RECURSIVE CollapseWhitespace(_, _)
CollapseWhitespace(s, inRun) ==
    IF s = <<>> THEN <<>>
    ELSE IF Head(s) \in Whitespace
         THEN (IF inRun THEN <<>> ELSE <<" ">>) \o CollapseWhitespace(Tail(s), TRUE)
         ELSE <<Head(s)>> \o CollapseWhitespace(Tail(s), FALSE)

\* The characters of the model carry no combining marks and none of
\* \u00df \u00e4 \u00f6 \u00fc, so NFKD, the mark strip and the four
\* letter replacements leave them as they are.
preprocess(raw) ==
    LET lower == toLowerCase(raw)
        lettersSpaces == ReplaceNonLetters(lower, FALSE)
    IN  Trim(CollapseWhitespace(lettersSpaces, FALSE))

isVowel(ch) == ch \in {"a", "e", "i", "o", "u", "y"}

RECURSIVE CollapseFrom(_, _)
CollapseFrom(s, i) ==
    IF i > Len(s) THEN <<>>
    ELSE (IF s[i] # s[i - 1] THEN <<s[i]>> ELSE <<>>) \o CollapseFrom(s, i + 1)

collapseRepeats_DropsFirst(s) == IF s = <<>> THEN s ELSE CollapseFrom(s, 2)

collapseRepeats(s) == IF s = <<>> THEN s ELSE <<s[1]>> \o CollapseFrom(s, 2)

\* Object.keys(merger).sort((a, b) => b.length - a.length): the merger table is
\* a sequence of <<symbol, replacement>> in insertion order; the sort is stable.
RECURSIVE InsertByLenDesc(_, _)
InsertByLenDesc(sorted, e) ==
    IF sorted = <<>> THEN <<e>>
    ELSE IF Len(e[1]) > Len(Head(sorted)[1])
         THEN <<e>> \o sorted
         ELSE <<Head(sorted)>> \o InsertByLenDesc(Tail(sorted), e)

RECURSIVE SortByLenDesc(_)
SortByLenDesc(m) ==
    IF m = <<>> THEN <<>>
    ELSE InsertByLenDesc(SortByLenDesc(SubSeq(m, 1, Len(m) - 1)), m[Len(m)])

\* The first symbol of the length-sorted table that key has at index i, or 0.
FirstSymbolAt(symbols, key, i) ==
    LET hits == {j \in 1..Len(symbols) : StartsWith(key, symbols[j][1], i)}
    IN  IF hits = {} THEN 0 ELSE CHOOSE j \in hits : \A k \in hits : j <= k

RECURSIVE MergeFrom(_, _, _)
MergeFrom(symbols, key, i) ==
    IF i >= Len(key) THEN <<>>
    ELSE LET j == FirstSymbolAt(symbols, key, i)
         IN  IF j # 0
             THEN symbols[j][2] \o MergeFrom(symbols, key, i + Len(symbols[j][1]))
             ELSE <<key[i + 1]>> \o MergeFrom(symbols, key, i + 1)

applyMergerTable(key, c) ==
    IF "mergerTable" \notin DOMAIN c THEN key
    ELSE MergeFrom(SortByLenDesc(c.mergerTable), key, 0)

\* A fallback that maps a vowel to "A" in both modes.
fallbackMapChar_IgnoresMode(ch, ruleType) == IF isVowel(ch) THEN <<"A">> ELSE <<>>

fallbackMapChar(ch, ruleType) ==
    IF ruleType = "EXACT" /\ isVowel(ch) THEN <<"A">> ELSE <<>>

-----------------------------------------------------------------------------
(* Rules and rule selection *)

\* The context helpers of src/src/bmpm.ts, as data: a predicate is a record
\* [kind |-> ...] (and [s |-> ...] for the two parameterised helpers).
EvalCtx(p, s) ==
    CASE p.kind = "ANY" -> TRUE
      [] p.kind = "atWordStart" -> s = <<>> \/ s[Len(s)] \in Whitespace
      [] p.kind = "atWordEnd" -> s = <<>> \/ s[1] \in Whitespace
      [] p.kind = "leftEndsWith" -> EndsWith(s, p.s)
      [] p.kind = "rightStartsWith" -> StartsWith(s, p.s, 0)

\* rule.consumes ?? rule.pattern.length
Consume(r) == IF "consumes" \in DOMAIN r THEN r.consumes ELSE Len(r.pattern)

\* The test of lines 186-188 on one rule.
Matches(t, pos, r) ==
    /\ StartsWith(t, r.pattern, pos)
    /\ LET left == Slice2(t, 0, pos)
           right == Slice(t, pos + Consume(r))
       IN  /\ ("lctx" \in DOMAIN r => EvalCtx(r.lctx, left))
           /\ ("rctx" \in DOMAIN r => EvalCtx(r.rctx, right))

SeqMax(ns) == CHOOSE n \in {ns[i] : i \in 1..Len(ns)} : \A i \in 1..Len(ns) : ns[i] <= n

\* A selection that stops after the priority filter of line 195.
selectApplicableRules_PriorityOnly(t, pos, rules) ==
    LET IsMatch(r) == Matches(t, pos, r)
        matches == SelectSeq(rules, IsMatch)
    IN  IF matches = <<>> THEN <<>>
        ELSE LET maxPr == SeqMax([i \in 1..Len(matches) |-> matches[i].priority])
                 IsTop(r) == r.priority = maxPr
             IN  SelectSeq(matches, IsTop)

selectApplicableRules(t, pos, rules) ==
    LET IsMatch(r) == Matches(t, pos, r)
        matches == SelectSeq(rules, IsMatch)
    IN  IF matches = <<>> THEN <<>>
        ELSE LET maxPr == SeqMax([i \in 1..Len(matches) |-> matches[i].priority])
                 IsTop(r) == r.priority = maxPr
                 top == SelectSeq(matches, IsTop)
                 maxLen == SeqMax([i \in 1..Len(top) |-> Consume(top[i])])
                 IsLongest(r) == Consume(r) = maxLen
             IN  SelectSeq(top, IsLongest)

\* The comparator of pruneFrontier: negative when a sorts before b.
PruneCmp(a, b) ==
    IF b.pos - a.pos # 0 THEN b.pos - a.pos ELSE Len(a.key) - Len(b.key)

\* Array.prototype.sort is stable: an element goes behind every element it does
\* not sort strictly before.
RECURSIVE InsertState(_, _)
InsertState(sorted, e) ==
    IF sorted = <<>> THEN <<e>>
    ELSE IF PruneCmp(e, Head(sorted)) < 0
         THEN <<e>> \o sorted
         ELSE <<Head(sorted)>> \o InsertState(Tail(sorted), e)

RECURSIVE SortStates(_)
SortStates(fr) ==
    IF fr = <<>> THEN <<>>
    ELSE InsertState(SortStates(SubSeq(fr, 1, Len(fr) - 1)), fr[Len(fr)])

\* A prune that sorts the positions and the keys of the frontier apart from
\* each other and pairs them again.
pruneFrontier_SortsFieldsApart(fr, cap) ==
    LET byPos == SortStates([i \in 1..Len(fr) |-> [pos |-> fr[i].pos, key |-> <<>>]])
        byKey == SortStates([i \in 1..Len(fr) |-> [pos |-> 0, key |-> fr[i].key]])
    IN  Slice2([i \in 1..Len(fr) |-> [pos |-> byPos[i].pos, key |-> byKey[i].key]], 0, cap)

\* A prune that cuts the frontier without sorting it.
pruneFrontier_Unsorted(fr, cap) == Slice2(fr, 0, cap)

\* A prune that keeps the tail of the sorted frontier instead of its head.
pruneFrontier_SliceFrom(fr, cap) == Slice(SortStates(fr), cap)

\* Lines 200-204: sort by position descending, then key length ascending, and
\* keep the first cap states.
pruneFrontier(fr, cap) == Slice2(SortStates(fr), 0, cap)

finalizeKey(key, c) ==
    IF c.ruleType = "APPROX"
    THEN collapseRepeats(applyMergerTable(key, c))
    ELSE key

\* Lines 227-228: the result set after a state at the end of the text is taken.
AddResult_RawLength(res, key, c) ==
    IF Len(key) >= c.minKeyLength THEN res \cup {finalizeKey(key, c)} ELSE res

AddResult(res, key, c) ==
    LET f == finalizeKey(key, c)
    IN  IF Len(f) >= c.minKeyLength THEN res \cup {f} ELSE res

\* Lines 239-240: the successor pushed when no rule applies.
FallbackState(t, st, c) ==
    [pos |-> st.pos + 1, key |-> st.key \o fallbackMapChar(t[st.pos + 1], c.ruleType)]

\* The pushes of the two loops of lines 242-249, in order: one per applicable
\* rule and output, each [consume, outSym].
RECURSIVE RulePushes(_)
RulePushes(applicable) ==
    IF applicable = <<>> THEN <<>>
    ELSE LET rule == Head(applicable)
         IN  [i \in 1..Len(rule.outputs) |->
                 [consume |-> Consume(rule), outSym |-> rule.outputs[i]]]
             \o RulePushes(Tail(applicable))

\* The counter is read only by the test expansions > cfg.maxExpansions, so the
\* model keeps it up to maxExpansions + 1: every larger value behaves the same.
Increment(exp, c) == Min(exp + 1, c.maxExpansions + 1)

\* Lines 245-248: one push, the counter and the conditional prune.
PushOne(fr, exp, st, p, c) ==
    LET newKey == IF c.collapseDuplicates
                  THEN collapseRepeats(st.key \o p.outSym)
                  ELSE st.key \o p.outSym
        pushed == Append(fr, [pos |-> st.pos + p.consume, key |-> newKey])
        exp2 == Increment(exp, c)
    IN  [frontier |-> IF exp2 > c.maxExpansions THEN pruneFrontier(pushed, Cap) ELSE pushed,
         expansions |-> exp2,
         dropped |-> exp2 > c.maxExpansions /\ Len(pushed) > Cap]

-----------------------------------------------------------------------------
(* Inputs of the encoder *)

\* All strings over an alphabet, up to a length.
RECURSIVE StringsUpTo(_, _)
StringsUpTo(alphabet, n) ==
    IF n = 0 THEN {<<>>}
    ELSE LET shorter == StringsUpTo(alphabet, n - 1)
         IN  shorter \cup {Append(s, c) : s \in shorter, c \in alphabet}

Texts == StringsUpTo({"a", "b", " "}, MaxLen)

\* The rule builder R of src/src/bmpm.ts: consumes is set to the pattern length.
R(pattern, outputs, priority) ==
    [pattern |-> pattern, outputs |-> outputs, priority |-> priority,
     consumes |-> Len(pattern)]

\* One pattern with three alternative outputs (as "ough" in the english table)
\* and one with two.
AmbiguousRules ==
    [language |-> "english",
     rules |-> << [pattern |-> <<"a">>, priority |-> 10,
                   outputs |-> << <<"V">>, <<"W">>, <<"K">> >>],
                  [pattern |-> <<"b">>, priority |-> 1,
                   outputs |-> << <<"V">>, <<"W">> >>] >>]

\* Priorities, ties and context predicates (as "c" and "en" in the english table).
PriorityRules ==
    [language |-> "german",
     rules |-> << R(<<"a", "b">>, << <<"F">> >>, 9),
                  [pattern |-> <<"b">>, outputs |-> << <<"S">> >>, priority |-> 8,
                   lctx |-> [kind |-> "atWordStart"], consumes |-> 1],
                  [pattern |-> <<"a">>, outputs |-> << <<"A">>, <<"W">> >>, priority |-> 5,
                   lctx |-> [kind |-> "ANY"], rctx |-> [kind |-> "atWordEnd"],
                   consumes |-> 1],
                  R(<<"a">>, << <<"A">> >>, 1),
                  R(<<"b">>, << <<"B">> >>, 1),
                  R(<<"b">>, << <<"V">> >>, 1),
                  R(<<"b", "b">>, << <<"B">> >>, 1) >>]

\* Consumed lengths that differ from the pattern length.
LengthRules ==
    [language |-> "french",
     rules |-> << [pattern |-> <<"a">>, outputs |-> << <<"S">> >>, priority |-> 8,
                   rctx |-> [kind |-> "rightStartsWith", s |-> <<"b">>], consumes |-> 2],
                  [pattern |-> <<"b">>, outputs |-> << <<"K">>, <<"V">> >>, priority |-> 8,
                   lctx |-> [kind |-> "leftEndsWith", s |-> <<"b">>], consumes |-> 2],
                  R(<<"a">>, << <<"A">> >>, 1),
                  R(<<"b">>, << <<"B">> >>, 1) >>]

\* A silent rule ("gh" -> "" in the english table) that consumes nothing.
ZeroRules ==
    [language |-> "spanish",
     rules |-> << [pattern |-> <<"b">>, outputs |-> << <<>> >>, priority |-> 1,
                   consumes |-> 0],
                  R(<<"a">>, << <<"A">> >>, 1) >>]

\* No rule at all: every character takes the fallback.
NoRules == [language |-> "polish", rules |-> <<>>]

RuleSets == {AmbiguousRules, PriorityRules, LengthRules, ZeroRules, NoRules}

\* A merger table in the shape of mergerApprox of src/src/bmpm.ts.
MergerTable ==
    << <<(<<"V">>), <<"F">>>>, <<(<<"W">>), <<"F">>>>, <<(<<"K", "V">>), <<"K">>>> >>

MinKeyLengths == {1, 2}

\* The fields of BMPMConfig that encodeWithRules reads.
EncoderFields ==
    [ruleType : {"EXACT", "APPROX"},
     maxExpansions : {MaxExpLow, MaxExpHigh},
     minKeyLength : MinKeyLengths,
     collapseDuplicates : BOOLEAN]

WithMerger(c) == [f \in DOMAIN c \cup {"mergerTable"} |->
                     IF f = "mergerTable" THEN MergerTable ELSE c[f]]

\* EXACT without a merger table, APPROX with and without one.
EncoderConfigs ==
    EncoderFields \cup {WithMerger(c) : c \in {d \in EncoderFields : d.ruleType = "APPROX"}}

NoState == [pos |-> 0, key |-> <<>>]

NoCall == [op |-> "none"]

NoRet == [kind |-> "none"]

-----------------------------------------------------------------------------
(* encodeWithRules, one step of lines 220-254 per action *)

EncInit ==
    /\ text \in Texts
    /\ langRules \in RuleSets
    /\ cfg \in EncoderConfigs
    /\ frontier = << [pos |-> 0, key |-> <<>>] >>
    /\ results = {}
    /\ expansions = 0
    /\ state = NoState
    /\ pending = <<>>
    /\ pruned = FALSE
    /\ pc = "loop"
    /\ call = NoCall
    /\ ret = NoRet

\* Line 224 with an empty frontier, and line 254.
Return ==
    /\ pc = "loop"
    /\ frontier = <<>>
    /\ pc' = "done"
    /\ UNCHANGED <<text, langRules, cfg, frontier, results, expansions, state,
                   pending, pruned, call, ret>>

\* Lines 225-230: a state at the end of the text.
Finish ==
    /\ pc = "loop"
    /\ frontier # <<>>
    /\ Head(frontier).pos >= Len(text)
    /\ state' = Head(frontier)
    /\ frontier' = Tail(frontier)
    /\ results' = AddResult(results, Head(frontier).key, cfg)
    /\ UNCHANGED <<text, langRules, cfg, expansions, pending, pruned, pc, call, ret>>

\* Lines 231-235: a space.
SkipSpace ==
    /\ pc = "loop"
    /\ frontier # <<>>
    /\ Head(frontier).pos < Len(text)
    /\ text[Head(frontier).pos + 1] = " "
    /\ state' = Head(frontier)
    /\ frontier' = Append(Tail(frontier),
                          [pos |-> Head(frontier).pos + 1, key |-> Head(frontier).key])
    /\ UNCHANGED <<text, langRules, cfg, results, expansions, pending, pruned, pc,
                   call, ret>>

\* Lines 237-241: no applicable rule.
Fallback ==
    /\ pc = "loop"
    /\ frontier # <<>>
    /\ Head(frontier).pos < Len(text)
    /\ text[Head(frontier).pos + 1] # " "
    /\ selectApplicableRules(text, Head(frontier).pos, langRules.rules) = <<>>
    /\ state' = Head(frontier)
    /\ frontier' = Append(Tail(frontier), FallbackState(text, Head(frontier), cfg))
    /\ UNCHANGED <<text, langRules, cfg, results, expansions, pending, pruned, pc,
                   call, ret>>

\* Lines 237-238 and 242: applicable rules, whose pushes follow one by one.
Select ==
    /\ pc = "loop"
    /\ frontier # <<>>
    /\ Head(frontier).pos < Len(text)
    /\ text[Head(frontier).pos + 1] # " "
    /\ LET applicable == selectApplicableRules(text, Head(frontier).pos, langRules.rules)
       IN  /\ applicable # <<>>
           /\ pending' = RulePushes(applicable)
    /\ state' = Head(frontier)
    /\ frontier' = Tail(frontier)
    /\ pc' = IF pending' = <<>> THEN "loop" ELSE "push"
    /\ UNCHANGED <<text, langRules, cfg, results, expansions, pruned, call, ret>>

\* Lines 245-248: one push of the inner loop.
Push ==
    /\ pc = "push"
    /\ LET p == PushOne(frontier, expansions, state, Head(pending), cfg)
       IN  /\ frontier' = p.frontier
           /\ expansions' = p.expansions
           /\ pruned' = (pruned \/ p.dropped)
    /\ pending' = Tail(pending)
    /\ pc' = IF pending' = <<>> THEN "loop" ELSE "push"
    /\ UNCHANGED <<text, langRules, cfg, results, state, call, ret>>

-----------------------------------------------------------------------------
(* encodeWithRules as a function: the same steps, run to the end *)

RECURSIVE RunPushes(_, _, _, _, _)
RunPushes(fr, exp, st, pushes, c) ==
    IF pushes = <<>> THEN [frontier |-> fr, expansions |-> exp]
    ELSE LET p == PushOne(fr, exp, st, Head(pushes), c)
         IN  RunPushes(p.frontier, p.expansions, st, Tail(pushes), c)

RECURSIVE RunLoop(_, _, _, _, _, _)
RunLoop(t, rules, c, fr, res, exp) ==
    IF fr = <<>> THEN res
    ELSE LET st == Head(fr)
         IN  IF st.pos >= Len(t)
             THEN RunLoop(t, rules, c, Tail(fr), AddResult(res, st.key, c), exp)
             ELSE IF t[st.pos + 1] = " "
             THEN RunLoop(t, rules, c,
                          Append(Tail(fr), [pos |-> st.pos + 1, key |-> st.key]),
                          res, exp)
             ELSE LET applicable == selectApplicableRules(t, st.pos, rules)
                  IN  IF applicable = <<>>
                      THEN RunLoop(t, rules, c,
                                   Append(Tail(fr), FallbackState(t, st, c)), res, exp)
                      ELSE LET p == RunPushes(Tail(fr), exp, st,
                                              RulePushes(applicable), c)
                           IN  RunLoop(t, rules, c, p.frontier, res, p.expansions)

encodeWithRules(t, lr, c) ==
    RunLoop(t, lr.rules, c, << [pos |-> 0, key |-> <<>>] >>, {}, 0)

-----------------------------------------------------------------------------
(* Language detection *)

\* The predicates of the heuristics of src/src/bmpm.ts are regular-expression
\* tests; the model has the two shapes /[a-z]/ and /c/ for a character c.
EvalHeuristic(p, name) ==
    CASE p.kind = "hasLetter" -> \E i \in 1..Len(name) : name[i] \in LowerLetters
      [] p.kind = "contains" -> \E i \in 1..Len(name) : name[i] = p.c

\* The defaults of lines 134-152.
Defaults(nameType) ==
    CASE nameType = "GENERIC" ->
           << [language |-> "english", score |-> 1],
              [language |-> "german", score |-> 1],
              [language |-> "french", score |-> 1] >>
      [] nameType = "ASHKENAZI" ->
           << [language |-> "yiddish", score |-> 2],
              [language |-> "german", score |-> 1],
              [language |-> "polish", score |-> 1],
              [language |-> "russian", score |-> 1],
              [language |-> "hebrew", score |-> 1] >>
      [] nameType = "SEPHARDIC" ->
           << [language |-> "spanish", score |-> 2],
              [language |-> "portuguese", score |-> 1],
              [language |-> "hebrew", score |-> 1] >>

RECURSIVE SumScores(_)
SumScores(cs) == IF cs = <<>> THEN 0 ELSE Head(cs).score + SumScores(Tail(cs))

\* A normalized score c.score / total is the fraction [num, den]; the weights of
\* the model are positive, so every den is positive.
\* b.score - a.score < 0: a sorts strictly before b.
ScoreBefore(a, b) == b.score.num * a.score.den < a.score.num * b.score.den

RECURSIVE InsertCandidate(_, _)
InsertCandidate(sorted, e) ==
    IF sorted = <<>> THEN <<e>>
    ELSE IF ScoreBefore(e, Head(sorted))
         THEN <<e>> \o sorted
         ELSE <<Head(sorted)>> \o InsertCandidate(Tail(sorted), e)

RECURSIVE SortCandidates(_)
SortCandidates(cs) ==
    IF cs = <<>> THEN <<>>
    ELSE InsertCandidate(SortCandidates(SubSeq(cs, 1, Len(cs) - 1)), cs[Len(cs)])

\* Lines 128-131.
RECURSIVE Fired(_, _)
Fired(hs, name) ==
    IF hs = <<>> THEN <<>>
    ELSE (IF EvalHeuristic(Head(hs).predicate, name)
          THEN << [language |-> Head(hs).language, score |-> Head(hs).weight] >>
          ELSE <<>>) \o Fired(Tail(hs), name)

\* Lines 128-160: the candidates, normalized and sorted, before the truncation.
RankedLanguages(name, c) ==
    LET fired == Fired(c.languageHeuristics, name)
        candidates == IF fired = <<>> THEN Defaults(c.nameType) ELSE fired
        total == SumScores(candidates)
        normalized ==
            [i \in 1..Len(candidates) |->
                [language |-> candidates[i].language,
                 score |-> IF total # 0
                           THEN [num |-> candidates[i].score, den |-> total]
                           ELSE [num |-> candidates[i].score, den |-> 1]]]
    IN  SortCandidates(normalized)

\* Line 161: cfg.topLanguages is tested for truthiness.
detectLanguages(name, c) ==
    LET normalized == RankedLanguages(name, c)
    IN  IF "topLanguages" \in DOMAIN c /\ c.topLanguages # 0
        THEN Slice2(normalized, 0, c.topLanguages)
        ELSE normalized

\* A transliterator is a character substitution table; the model has the one
\* shape "replace every c by the string to".
RECURSIVE ApplyTransliterator(_, _)
ApplyTransliterator(tr, name) ==
    IF name = <<>> THEN <<>>
    ELSE (IF Head(name) = tr.c THEN tr.to ELSE <<Head(name)>>)
         \o ApplyTransliterator(tr, Tail(name))

transliterateForLanguage(name, language, c) ==
    LET hs == c.languageHeuristics
        found == {i \in 1..Len(hs) : hs[i].language = language}
    IN  IF found = {} THEN name
        ELSE LET h == hs[CHOOSE i \in found : \A j \in found : i <= j]
             IN  IF "transliterator" \in DOMAIN h
                 THEN ApplyTransliterator(h.transliterator, name)
                 ELSE name

-----------------------------------------------------------------------------
(* Top-level APIs *)

\* A value handed in as a name: a string, or one of the non-strings null,
\* undefined, the number 42, the object {}.
\* (rawName ?? "").toString()
ToStr(v) ==
    CASE v.type = "string" -> v.s
      [] v.type \in {"null", "undefined"} -> <<>>
      [] v.type = "number" -> <<"4", "2">>
      [] v.type = "object" ->
           <<"[", "o", "b", "j", "e", "c", "t", " ", "O", "b", "j", "e", "c", "t", "]">>

\* Lines 269-284, with the guards of lines 272, 279 and 282.
RECURSIVE EncodeLanguages(_, _, _)
EncodeLanguages(langs, rawForDetect, c) ==
    IF langs = <<>> THEN <<>>
    ELSE LET language == Head(langs).language
             rest == EncodeLanguages(Tail(langs), rawForDetect, c)
         IN  IF language \notin DOMAIN c.languageRuleSets THEN rest
             ELSE LET translit == transliterateForLanguage(rawForDetect, language, c)
                      norm == preprocess(translit)
                  IN  IF norm = <<>> THEN rest
                      ELSE LET keys == encodeWithRules(norm, c.languageRuleSets[language], c)
                           IN  IF keys # {}
                               THEN << [language |-> language, keys |-> keys] >> \o rest
                               ELSE rest

\* The loop without the guard of line 279.
RECURSIVE EncodeLanguages_NoNormGuard(_, _, _)
EncodeLanguages_NoNormGuard(langs, rawForDetect, c) ==
    IF langs = <<>> THEN <<>>
    ELSE LET language == Head(langs).language
             rest == EncodeLanguages_NoNormGuard(Tail(langs), rawForDetect, c)
         IN  IF language \notin DOMAIN c.languageRuleSets THEN rest
             ELSE LET translit == transliterateForLanguage(rawForDetect, language, c)
                      norm == preprocess(translit)
                      keys == encodeWithRules(norm, c.languageRuleSets[language], c)
                  IN  IF keys # {}
                      THEN << [language |-> language, keys |-> keys] >> \o rest
                      ELSE rest

\* bmpmEncode with neither the rejection of line 263 nor the guard of line 279.
bmpmEncode_Unguarded(rawName, c) ==
    LET rawForDetect == toLowerCase(ToStr(rawName))
    IN  EncodeLanguages_NoNormGuard(detectLanguages(rawForDetect, c), rawForDetect, c)

\* The characters of the model are their own NFC form.
bmpmEncode(rawName, c) ==
    LET raw == ToStr(rawName)
        rawForDetect == toLowerCase(raw)
    IN  IF Trim(raw) = <<>> THEN <<>>
        ELSE EncodeLanguages(detectLanguages(rawForDetect, c), rawForDetect, c)

\* new Set([...A.flatMap((r) => [...r.keys])])
RECURSIVE FlatKeys(_)
FlatKeys(A) == IF A = <<>> THEN {} ELSE Head(A).keys \cup FlatKeys(Tail(A))

bmpmMatch_FirstLanguage(a, b, c) ==
    LET A == bmpmEncode(a, c)
        B == bmpmEncode(b, c)
    IN  /\ A # <<>>
        /\ B # <<>>
        /\ \E k \in Head(A).keys : k \in Head(B).keys

bmpmMatch(a, b, c) ==
    LET setA == FlatKeys(bmpmEncode(a, c))
        setB == FlatKeys(bmpmEncode(b, c))
    IN  \E k \in setA : k \in setB

\* A similarity is the fraction [num, den]; 0 is [num |-> 0, den |-> 1].
bmpmSimilarity_OverFirst(a, b, c) ==
    LET setA == FlatKeys(bmpmEncode(a, c))
        setB == FlatKeys(bmpmEncode(b, c))
        inter == Cardinality({x \in setA : x \in setB})
    IN  IF setA # {} THEN [num |-> inter, den |-> Cardinality(setA)]
        ELSE [num |-> 0, den |-> 1]

bmpmSimilarity(a, b, c) ==
    LET setA == FlatKeys(bmpmEncode(a, c))
        setB == FlatKeys(bmpmEncode(b, c))
        inter == Cardinality({x \in setA : x \in setB})
        union == Cardinality(setA \cup setB)
    IN  IF union # 0 THEN [num |-> inter, den |-> union] ELSE [num |-> 0, den |-> 1]

-----------------------------------------------------------------------------
(* Inputs of the top-level APIs *)

With(c, f, v) == [x \in DOMAIN c \cup {f} |-> IF x = f THEN v ELSE c[x]]

Without(c, f) == [x \in DOMAIN c \ {f} |-> c[x]]

Names == StringsUpTo({"a", "b", " ", "\t"}, MaxNameLen)

PairNames == StringsUpTo({"a", "b"}, MaxNameLen)

StringValue(n) == [type |-> "string", s |-> n]

RawValues ==
    {StringValue(n) : n \in Names}
    \cup {[type |-> "null"], [type |-> "undefined"], [type |-> "number"],
          [type |-> "object"]}

\* No heuristic; the first three heuristics of src/src/bmpm.ts (weights in
\* tenths), one with a transliterator; three heuristics of which two name the
\* same language.
HeuristicSets ==
    { <<>>,
      << [language |-> "german", weight |-> 12,
          predicate |-> [kind |-> "contains", c |-> "b"]],
         [language |-> "english", weight |-> 10,
          predicate |-> [kind |-> "hasLetter"]],
         [language |-> "french", weight |-> 10,
          predicate |-> [kind |-> "contains", c |-> "a"],
          transliterator |-> [c |-> "b", to |-> <<"a", "b">>]] >>,
      << [language |-> "english", weight |-> 10,
          predicate |-> [kind |-> "contains", c |-> "b"]],
         [language |-> "polish", weight |-> 11,
          predicate |-> [kind |-> "contains", c |-> "a"]],
         [language |-> "english", weight |-> 12,
          predicate |-> [kind |-> "contains", c |-> "b"]] >> }

LanguageRuleSets ==
    [english |-> AmbiguousRules, german |-> PriorityRules, french |-> LengthRules,
     polish |-> NoRules]

\* The largest cfg.topLanguages of the model.
MaxTop == 2

ApiFields ==
    [nameType : {"GENERIC", "ASHKENAZI", "SEPHARDIC"},
     ruleType : {"EXACT", "APPROX"},
     maxExpansions : {MaxExpDefault},
     minKeyLength : 0..2,
     collapseDuplicates : BOOLEAN,
     languageHeuristics : HeuristicSets,
     languageRuleSets : {LanguageRuleSets}]

\* APPROX comes with the merger table, EXACT without (as exactCfg of the tests).
ApiModes == {IF c.ruleType = "APPROX" THEN WithMerger(c) ELSE c : c \in ApiFields}

ApiConfigs == ApiModes \cup {With(c, "topLanguages", n) : c \in ApiModes, n \in 0..MaxTop}

\* bmpmEncode is called with topLanguages absent or 1.
EncodeConfigs ==
    {c \in ApiConfigs : "topLanguages" \in DOMAIN c => c.topLanguages = 1}

\* detectLanguages reads nameType, languageHeuristics and topLanguages only.
DetectConfigs ==
    {c \in ApiConfigs :
        /\ c.ruleType = "EXACT"
        /\ c.minKeyLength = 1
        /\ c.collapseDuplicates}

\* bmpmMatch and bmpmSimilarity are called under the GENERIC name type, without
\* topLanguages.
PairConfigs ==
    {c \in ApiConfigs : c.nameType = "GENERIC" /\ "topLanguages" \notin DOMAIN c}

Value(v) == [kind |-> "value", value |-> v]

ApiInit ==
    /\ \/ /\ call \in [op : {"encode"}, a : RawValues]
          /\ cfg \in EncodeConfigs
       \/ /\ call \in [op : {"detect"}, a : Names]
          /\ cfg \in DetectConfigs
       \/ /\ call \in [op : {"match", "similarity"},
                       a : {StringValue(n) : n \in PairNames},
                       b : {StringValue(n) : n \in PairNames}]
          /\ cfg \in PairConfigs
    /\ ret = NoRet
    /\ pc = "api"
    /\ text = <<>>
    /\ langRules = NoRules
    /\ frontier = <<>>
    /\ results = {}
    /\ expansions = 0
    /\ state = NoState
    /\ pending = <<>>
    /\ pruned = FALSE

EncoderVars == <<text, langRules, frontier, results, expansions, state, pending, pruned>>

CallEncode ==
    /\ pc = "api"
    /\ ret = NoRet
    /\ call.op = "encode"
    /\ ret' = Value(bmpmEncode(call.a, cfg))
    /\ UNCHANGED <<EncoderVars, cfg, pc, call>>

CallDetect ==
    /\ pc = "api"
    /\ ret = NoRet
    /\ call.op = "detect"
    /\ ret' = Value(detectLanguages(call.a, cfg))
    /\ UNCHANGED <<EncoderVars, cfg, pc, call>>

CallMatch ==
    /\ pc = "api"
    /\ ret = NoRet
    /\ call.op = "match"
    /\ ret' = Value(bmpmMatch(call.a, call.b, cfg))
    /\ UNCHANGED <<EncoderVars, cfg, pc, call>>

CallSimilarity ==
    /\ pc = "api"
    /\ ret = NoRet
    /\ call.op = "similarity"
    /\ ret' = Value(bmpmSimilarity(call.a, call.b, cfg))
    /\ UNCHANGED <<EncoderVars, cfg, pc, call>>

-----------------------------------------------------------------------------
(* Specifications *)

Init == EncInit \/ ApiInit

EncNext ==
    \/ Return
    \/ Finish
    \/ SkipSpace
    \/ Fallback
    \/ Select
    \/ Push

ApiNext ==
    \/ CallEncode
    \/ CallDetect
    \/ CallMatch
    \/ CallSimilarity

Next == EncNext \/ ApiNext

Spec == Init /\ [][Next]_vars

\* The calls of encodeWithRules under the encoder fields of ExtendedBMPMConfig
\* (minKeyLength 1, collapseDuplicates true), in both modes, with the low value
\* of maxExpansions.
FairInit ==
    /\ EncInit
    /\ cfg.minKeyLength = 1
    /\ cfg.collapseDuplicates
    /\ cfg.maxExpansions = MaxExpLow

\* The engine is single-threaded and synchronous: a call that can take a step
\* takes it.
FairSpec == FairInit /\ [][EncNext]_vars /\ WF_vars(EncNext)

-----------------------------------------------------------------------------
(* Properties *)

\* The union of all keys over all EncodeResults of an encoding.
KeyUnion(A) == UNION {A[i].keys : i \in 1..Len(A)}

Returned == ret # NoRet

\* C1: bmpmMatch(a, b, cfg) is true exactly when the key unions of
\* bmpmEncode(a, cfg) and bmpmEncode(b, cfg) share a key.
C1_MatchIffKeysIntersect ==
    (call.op = "match" /\ Returned) =>
        ret.value = (KeyUnion(bmpmEncode(call.a, cfg))
                     \cap KeyUnion(bmpmEncode(call.b, cfg)) # {})

\* Two different names over several languages that match.
C1_Witness ==
    /\ call.op = "match"
    /\ ret = Value(TRUE)
    /\ call.a # call.b
    /\ Len(bmpmEncode(call.a, cfg)) > 1

\* C2: bmpmSimilarity(a, b, cfg) is |KA \cap KB| / |KA \cup KB| for the key
\* unions KA, KB of the two encodings, 0 when both are empty, and lies in [0,1].
C2_SimilarityIsJaccard ==
    (call.op = "similarity" /\ Returned) =>
        LET KA == KeyUnion(bmpmEncode(call.a, cfg))
            KB == KeyUnion(bmpmEncode(call.b, cfg))
            sim == ret.value
        IN  /\ sim.den > 0
            /\ 0 <= sim.num
            /\ sim.num <= sim.den
            /\ IF KA \cup KB = {} THEN sim.num = 0
               ELSE sim.num * Cardinality(KA \cup KB) = Cardinality(KA \cap KB) * sim.den

\* A similarity strictly between 0 and 1.
C2_Witness ==
    /\ call.op = "similarity"
    /\ Returned
    /\ 0 < ret.value.num
    /\ ret.value.num < ret.value.den

\* C3: bmpmEncode of the empty string or of a string of whitespace only returns
\* the empty list.
C3_WhitespaceEncodesToNothing ==
    (/\ call.op = "encode"
     /\ Returned
     /\ call.a.type = "string"
     /\ \A i \in 1..Len(call.a.s) : call.a.s[i] \in Whitespace) =>
        ret = Value(<<>>)

\* A non-empty string of whitespace, under a configuration that keeps empty keys.
C3_Witness ==
    /\ call.op = "encode"
    /\ call.a.type = "string"
    /\ call.a.s # <<>>
    /\ \A i \in 1..Len(call.a.s) : call.a.s[i] \in Whitespace
    /\ cfg.minKeyLength = 0
    /\ ret = Value(<<>>)

\* C4: the frontier search of encodeWithRules terminates for every rule set of
\* the data model: a call in its loop reaches line 254.
C4_Terminates == (pc = "loop") ~> (pc = "done")

\* The text is n >= 1 repetitions of the pattern of a rule with three outputs
\* that is the one applicable rule at the start.
RECURSIVE IsRepetition(_, _)
IsRepetition(t, pattern) ==
    \/ t = <<>>
    \/ /\ StartsWith(t, pattern, 0)
       /\ IsRepetition(Slice(t, Len(pattern)), pattern)

AmbiguousRepeat ==
    /\ text # <<>>
    /\ LET applicable == selectApplicableRules(text, 0, langRules.rules)
       IN  /\ Len(applicable) = 1
           /\ Len(applicable[1].outputs) = 3
           /\ applicable[1].pattern # <<>>
           /\ IsRepetition(text, applicable[1].pattern)

C6_KeysAtLeastMinLength ==
    /\ \A k \in results : Len(k) >= cfg.minKeyLength
    /\ (call.op = "encode" /\ Returned) =>
           \A i \in 1..Len(ret.value) :
               \A k \in ret.value[i].keys : Len(k) >= cfg.minKeyLength

\* A call in APPROX mode that has returned keys and has dropped a finalized key
\* for its length.
C6_Witness ==
    /\ pc = "done"
    /\ cfg.ruleType = "APPROX"
    /\ cfg.minKeyLength = 2
    /\ results # {}
    /\ \A i \in 1..Len(langRules.rules) : Consume(langRules.rules[i]) >= 1
    /\ results # encodeWithRules(text, langRules, With(cfg, "minKeyLength", 0))

ExactOf(c) == Without(With(c, "ruleType", "EXACT"), "mergerTable")

\* x >= y for fractions with positive denominators.
FractionGeq(x, y) == x.num * y.den >= y.num * x.den

\* No language of the encoding leaves a vowel of the normalized name without a
\* rule, so that the fallback emits nothing in either mode.
NoVowelFallback(rawName, c) ==
    LET rawForDetect == toLowerCase(ToStr(rawName))
        langs == detectLanguages(rawForDetect, c)
    IN  \A i \in 1..Len(langs) :
            langs[i].language \in DOMAIN c.languageRuleSets =>
                LET norm == preprocess(
                                transliterateForLanguage(rawForDetect, langs[i].language, c))
                    rules == c.languageRuleSets[langs[i].language].rules
                IN  \A pos \in 0..(Len(norm) - 1) :
                        isVowel(norm[pos + 1]) =>
                            selectApplicableRules(norm, pos, rules) # <<>>

\* No symbol and no replacement of the merger table is the empty string.
NonEmptyMerger(c) ==
    "mergerTable" \in DOMAIN c =>
        \A i \in 1..Len(c.mergerTable) :
            c.mergerTable[i][1] # <<>> /\ c.mergerTable[i][2] # <<>>

C8_NonStringRejected ==
    (call.op = "encode" /\ Returned /\ call.a.type # "string") =>
        /\ ret.kind = "error"
        /\ ret.error = "InvalidArgument"

\* C9: with cfg.topLanguages set to n >= 0, detectLanguages returns at most n
\* entries, the first n of the ranked candidates.
C9_TruncatedToTopLanguages ==
    (call.op = "detect" /\ Returned /\ "topLanguages" \in DOMAIN cfg) =>
        /\ Len(ret.value) <= cfg.topLanguages
        /\ ret.value = Slice2(RankedLanguages(call.a, cfg), 0, cfg.topLanguages)

\* C10: no two entries of the list returned by bmpmEncode carry the same
\* language, and no entry has an empty key set.
C10_OneResultPerLanguage ==
    (call.op = "encode" /\ Returned) =>
        /\ \A i, j \in 1..Len(ret.value) :
               i # j => ret.value[i].language # ret.value[j].language
        /\ \A i \in 1..Len(ret.value) : ret.value[i].keys # {}

\* The rules of the claimed selection at the cursor of the state taken from the
\* frontier: the indices of the rules that match with their contexts, have the
\* greatest priority among those, and the greatest consumed-length among these.
MatchingAt(pos) ==
    {i \in 1..Len(langRules.rules) : Matches(text, pos, langRules.rules[i])}

TopPriorityAt(pos) ==
    {i \in MatchingAt(pos) :
        \A j \in MatchingAt(pos) : langRules.rules[j].priority <= langRules.rules[i].priority}

SurvivorsAt(pos) ==
    {i \in TopPriorityAt(pos) :
        \A j \in TopPriorityAt(pos) :
            Consume(langRules.rules[j]) <= Consume(langRules.rules[i])}

\* One [consume, outSym] per surviving rule from index i on and per output, in
\* the order of the rule set.
RECURSIVE ExpectedPushes(_, _)
ExpectedPushes(i, pos) ==
    IF i > Len(langRules.rules) THEN <<>>
    ELSE (IF i \in SurvivorsAt(pos)
          THEN [j \in 1..Len(langRules.rules[i].outputs) |->
                   [consume |-> Consume(langRules.rules[i]),
                    outSym |-> langRules.rules[i].outputs[j]]]
          ELSE <<>>)
         \o ExpectedPushes(i + 1, pos)

AtRuleCursor ==
    /\ pc = "loop"
    /\ frontier # <<>>
    /\ Head(frontier).pos < Len(text)
    /\ text[Head(frontier).pos + 1] # " "
    /\ MatchingAt(Head(frontier).pos) # {}

\* The step at a cursor with matching rules takes the state off the frontier and
\* schedules exactly the pushes of the surviving rules.
SelectsSurvivors ==
    AtRuleCursor =>
        /\ pending' = ExpectedPushes(1, Head(frontier).pos)
        /\ frontier' = Tail(frontier)
        /\ state' = Head(frontier)

\* The frontier after one scheduled push whose new key is newKey: the new
\* element at the end, then the prune of line 248 when the counter has passed
\* maxExpansions.
AfterPush(newKey) ==
    LET pushed == Append(frontier, [pos |-> state.pos + Head(pending).consume,
                                    key |-> newKey])
    IN  IF expansions' > cfg.maxExpansions THEN pruneFrontier(pushed, Cap) ELSE pushed

\* C11, as claimed: the rules applied at a cursor are the matching rules of
\* greatest priority and, among them, of greatest consumed-length; each output
\* of each pushes one element with the cursor advanced by the consumed-length
\* and the key extended by the output.
C11_SurvivorsPushExtendedKeys ==
    [][/\ SelectsSurvivors
       /\ pc = "push" =>
              /\ frontier' = AfterPush(state.key \o Head(pending).outSym)
              /\ pending' = Tail(pending)]_vars

\* C11, amended: the same, with the key extended by the output and then
\* duplicate-collapsed when cfg.collapseDuplicates is set.
C11_SurvivorsPushCollapsedKeys ==
    [][/\ SelectsSurvivors
       /\ pc = "push" =>
              /\ frontier' = AfterPush(IF cfg.collapseDuplicates
                                      THEN collapseRepeats(state.key \o Head(pending).outSym)
                                      ELSE state.key \o Head(pending).outSym)
              /\ pending' = Tail(pending)]_vars

\* Rules of the greatest priority but of shorter consumed-length matched at the
\* cursor and were left out, under collapseDuplicates, and the pushes of the
\* survivors are on the frontier.
C11_Witness ==
    /\ pc = "loop"
    /\ cfg.collapseDuplicates
    /\ state.key # <<>>
    /\ SurvivorsAt(state.pos) # {}
    /\ SurvivorsAt(state.pos) # TopPriorityAt(state.pos)
    /\ frontier # <<>>
    /\ frontier[Len(frontier)].pos > state.pos
    /\ Len(frontier[Len(frontier)].key) > Len(state.key)

\* The number of occurrences of e in the sequence q.
Count(q, e) == Cardinality({i \in 1..Len(q) : q[i] = e})

\* kept holds the first cap elements of pre under the order (descending cursor
\* position, then ascending key length): it is in that order, it is taken from
\* pre, and nothing left behind sorts strictly before an element that was kept.
IsTopOf(kept, pre, cap) ==
    /\ Len(kept) = Min(cap, Len(pre))
    /\ \A i, j \in 1..Len(kept) : i < j => PruneCmp(kept[i], kept[j]) <= 0
    /\ \A i \in 1..Len(kept) : Count(kept, kept[i]) <= Count(pre, kept[i])
    /\ \A i \in 1..Len(pre) :
           Count(kept, pre[i]) < Count(pre, pre[i]) =>
               \A k \in 1..Len(kept) : PruneCmp(pre[i], kept[k]) >= 0

\* The frontier right after the push of line 247, before line 248.
PushedFrontier ==
    Append(frontier,
           [pos |-> state.pos + Head(pending).consume,
            key |-> IF cfg.collapseDuplicates
                    THEN collapseRepeats(state.key \o Head(pending).outSym)
                    ELSE state.key \o Head(pending).outSym])

\* C12: after every push that leaves the expansion counter above
\* cfg.maxExpansions the frontier holds at most cap elements, the first cap of
\* the frontier before the prune under the order of pruneFrontier; and once
\* the counter is above maxExpansions, the frontier at the start of a loop
\* iteration never holds more than cap elements.
C12_PrunedToCap ==
    [][/\ (pc = "push" /\ expansions' > cfg.maxExpansions) =>
              /\ Len(frontier') <= Cap
              /\ IsTopOf(frontier', PushedFrontier, Cap)
       /\ (pc' = "loop" /\ expansions' > cfg.maxExpansions) =>
              Len(frontier') <= Cap]_vars

\* A loop iteration starts on a full frontier after a prune has dropped states.
C12_Witness ==
    /\ pc = "loop"
    /\ pruned
    /\ expansions > cfg.maxExpansions
    /\ Len(frontier) = Cap
    /\ frontier[1].pos < Len(text)

\* The rule set with the rules at indices i and j exchanged.
SwapRules(lr, i, j) ==
    [language |-> lr.language,
     rules |-> [k \in 1..Len(lr.rules) |->
                   IF k = i THEN lr.rules[j] ELSE IF k = j THEN lr.rules[i] ELSE lr.rules[k]]]

\* C13: the order of the rules of a rule set is not significant: a call that
\* has returned has the key set that encodeWithRules returns for the same text
\* and configuration with any two rules of the rule set exchanged (every
\* permutation is a sequence of such exchanges), pruned runs included.
C13_RuleOrderInsignificant ==
    pc = "done" =>
        \A i, j \in 1..Len(langRules.rules) :
            encodeWithRules(text, SwapRules(langRules, i, j), cfg) = results

\* A cursor of the loop on a character that is not a space: line 237 is next.
AtCursor ==
    /\ pc = "loop"
    /\ frontier # <<>>
    /\ Head(frontier).pos < Len(text)
    /\ text[Head(frontier).pos + 1] # " "

\* The test of a rule as claimed: the left context on text[0, pos), the right
\* context on the text from pos + (length of the pattern) on, an absent
\* predicate counting as true.
MatchesAfterPattern(t, pos, r) ==
    /\ StartsWith(t, r.pattern, pos)
    /\ ("lctx" \in DOMAIN r => EvalCtx(r.lctx, Slice2(t, 0, pos)))
    /\ ("rctx" \in DOMAIN r => EvalCtx(r.rctx, Slice(t, pos + Len(r.pattern))))

\* C14: at every cursor where selectApplicableRules is called, a rule passes
\* the test of lines 186-188 exactly when its pattern matches at the cursor,
\* its left context holds on text[0, pos) and its right context holds on the
\* text after the matched pattern.
C14_ContextsAroundMatchedSpan ==
    AtCursor =>
        \A i \in 1..Len(langRules.rules) :
            Matches(text, Head(frontier).pos, langRules.rules[i])
                <=> MatchesAfterPattern(text, Head(frontier).pos, langRules.rules[i])

Vowels == {"a", "e", "i", "o", "u", "y"}

\* C15: when no rule is applicable at a cursor that is not on a space, the step
\* takes the state off the frontier and pushes one successor, one position
\* further, whose key has "A" appended for a vowel in EXACT mode and is
\* unchanged otherwise; the expansion counter and the result set stay as they
\* are.
C15_FallbackStep ==
    [][(AtCursor /\ MatchingAt(Head(frontier).pos) = {}) =>
          LET st == Head(frontier)
              ch == text[st.pos + 1]
              key == IF cfg.ruleType = "EXACT" /\ ch \in Vowels
                     THEN Append(st.key, "A")
                     ELSE st.key
          IN  /\ frontier' = Append(Tail(frontier), [pos |-> st.pos + 1, key |-> key])
              /\ expansions' = expansions
              /\ results' = results
              /\ pc' = "loop"]_vars

\* The fallback has mapped a vowel to "A" in EXACT mode.
C15_Witness ==
    /\ pc = "loop"
    /\ cfg.ruleType = "EXACT"
    /\ state.pos < Len(text)
    /\ text[state.pos + 1] = "a"
    /\ MatchingAt(state.pos) = {}
    /\ frontier # <<>>
    /\ frontier[Len(frontier)] = [pos |-> state.pos + 1, key |-> Append(state.key, "A")]

\* Every rule of the rule set of the call consumes at least one character.
ConsumesAtLeastOne ==
    \A i \in 1..Len(langRules.rules) : Consume(langRules.rules[i]) >= 1

\* The key set of the same call under a maxExpansions that no search of the
\* model reaches, so that the frontier is never pruned.
UnprunedKeys == encodeWithRules(text, langRules, With(cfg, "maxExpansions", MaxExpDefault))

\* C16: under rules that consume at least one character, every key of the key
\* set that a call of encodeWithRules returns is a key of the same call without
\* pruning.
C16_PruningCreatesNoKey ==
    (pc = "done" /\ ConsumesAtLeastOne) => results \subseteq UnprunedKeys

\* A call that has returned keys after a prune that made it lose others.
C16_Witness ==
    /\ pc = "done"
    /\ pruned
    /\ ConsumesAtLeastOne
    /\ results # {}
    /\ results # UnprunedKeys

=============================================================================
